---- MODULE Spec2Model ----
(***************************************************************************)
(* SimSiam (pl_bolts/models/self_supervised/simsiam/simsiam_module.py).     *)
(*                                                                         *)
(* The module under study is a LightningModule: an online network, a       *)
(* target network that is a deep copy of it, a symmetric negative-cosine   *)
(* loss and an optimizer/schedule pair.  The model keeps                   *)
(*   - a heap of network objects, so that "deep copy" and "alias" differ,  *)
(*   - tensors with their value, the output they come from and the set of  *)
(*     network objects their autograd graph reaches,                       *)
(*   - the training loop's position (the hooks are called by the trainer). *)
(* Real numbers are kept in fixed point: a similarity s is the integer     *)
(* floor(Scale * |s|) with the sign of s.                                  *)
(***************************************************************************)
EXTENDS Integers, Sequences, FiniteSets, TLC

VARIABLES
    online_network,   \* self.online_network: reference to a network object
    target_network,   \* self.target_network: reference to a network object
    heap,             \* network objects: reference -> parameters, or Free
    optimizer,        \* what configure_optimizers returned, or NoOptimizer
    last_epoch,       \* the schedule's step counter
    lr,               \* learning rate the schedule has set (units of 1e-3)
    prev_lr,          \* history: lr before the schedule's latest step
    pc,               \* position of the training loop
    current_epoch,    \* trainer: epochs completed
    batch_idx,        \* trainer: training batches completed in this epoch
    batch,            \* the batch of the running step
    result,           \* (loss_a, loss_b, total_loss) of the running step
    returned,         \* value the running step returned to the trainer
    logged,           \* the dict the running step handed to self.log_dict
    metric_names,     \* history: every metric name ever recorded
    failed,           \* history: a step has raised
    tgt_after_batch,  \* history: target parameters right after the latest refresh
    onl_at_refresh,   \* history: online parameters at the latest refresh
    tgt_moved         \* history: the latest refresh left the target with other
                      \* parameter values than the refresh before it

vars == <<online_network, target_network, heap, optimizer, last_epoch, lr,
          prev_lr, pc, current_epoch, batch_idx, batch, result, returned,
          logged, metric_names, failed, tgt_after_batch, onl_at_refresh,
          tgt_moved>>

(***************************************************************************)
(* Bounds of the model.                                                    *)
(***************************************************************************)
\* weights of a network range over -MaxWeight..MaxWeight
MaxWeight == 1
\* images per batch
MaxBatch == 2
\* training batches per epoch
MaxBatches == 2
\* epochs the full training loop is followed for
MaxEpochs == 2
\* fixed-point resolution of similarities and losses
Scale == 100

(***************************************************************************)
(* Hyperparameters (defaults of SimSiam.__init__).                         *)
(***************************************************************************)
\* learning_rate: float = 0.2, in units of 1e-3
learning_rate == 200
warmup_epochs == 10
max_epochs == 1000

(***************************************************************************)
(* Values.                                                                 *)
(***************************************************************************)
Weights == (0 - MaxWeight)..MaxWeight
\* parameters of a SiameseArm: a weight of the encoder and one of the predictor
Params == [enc : Weights, pred : Weights]
Refs == {"n0", "n1", "n2"}
\* a released object, and Python's None: records, as every other value they are compared with
Free == [free |-> TRUE]
None == [none |-> TRUE]
NoOptimizer == [configured |-> FALSE]
\* an augmented view: a vector of two features
Images == {<<1, 0>>, <<1, 1>>}
\* (img_1, img_2, _), y = batch: two views of the same images; the label is unused
Batches ==
    UNION {[img_1 : [1..n -> Images], img_2 : [1..n -> Images]] : n \in 1..MaxBatch}

Abs(x) == IF x < 0 THEN 0 - x ELSE x
Sign(x) == IF x < 0 THEN 0 - 1 ELSE IF x > 0 THEN 1 ELSE 0
\* integer division rounding toward zero
TruncDiv(a, b) == Sign(a) * (Abs(a) \div b)

RECURSIVE SqrtBetween(_, _, _)
\* lo*lo <= n < hi*hi
SqrtBetween(n, lo, hi) ==
    IF hi - lo <= 1 THEN lo
    ELSE LET mid == (lo + hi) \div 2
         IN IF mid * mid <= n THEN SqrtBetween(n, mid, hi)
                              ELSE SqrtBetween(n, lo, mid)
\* floor of the square root
ISqrt(n) == SqrtBetween(n, 0, n + 1)

RECURSIVE SumSeq(_)
SumSeq(s) == IF s = <<>> THEN 0 ELSE Head(s) + SumSeq(Tail(s))

OnlineParams == heap[online_network]
TargetParams == heap[target_network]

(***************************************************************************)
(* SiameseArm: encoder, projector, predictor.  y is the raw embedding, z   *)
(* the projected one, h the predicted one, derived from z.                 *)
(***************************************************************************)
SiameseArm(p, x) ==
    LET y == <<p.enc * x[1], x[2]>>
        z == <<y[1] + y[2], y[2]>>
        h == <<z[2], p.pred * z[1]>>
    IN [y |-> y, z |-> z, h |-> h]

\* self.<attr>(imgs): the three outputs of the network object ref, each a tensor
\* with its value, the output it is and the objects its graph reaches
Forward(attr, ref, imgs, view, grad_enabled) ==
    LET out(head) ==
            [val  |-> [i \in 1..Len(imgs) |-> SiameseArm(heap[ref], imgs[i])[head]],
             tag  |-> <<attr, head, view>>,
             grad |-> IF grad_enabled THEN {ref} ELSE {}]
    IN [y |-> out("y"), z |-> out("z"), h |-> out("h")]

\* y1, z1, h1 = self.online_network(img)
online_forward(imgs, view) == Forward("online_network", online_network, imgs, view, TRUE)

\* with torch.no_grad(): y2, z2, h2 = self.target_network(img)
target_forward(imgs, view) == Forward("target_network", target_network, imgs, view, FALSE)

(***************************************************************************)
(* cosine_similarity.  A normalised vector is kept exactly, as num / sqrt  *)
(* of den2, and only the similarity is rounded to fixed point.             *)
(***************************************************************************)
Dot(u, v) == u[1] * v[1] + u[2] * v[2]

\* variant: the operand is used as it is
normalize_skipped(v) == [num |-> v, den2 |-> 1]

\* F.normalize(v, dim=-1): v / max(||v||, eps); the zero vector stays zero
normalize(v) ==
    LET n2 == Dot(v, v)
    IN [num |-> v, den2 |-> IF n2 = 0 THEN 1 ELSE n2]

\* (a * b).sum(-1) of one row, in fixed point
RowSim(a, b) ==
    LET d == Dot(a.num, b.num)
    IN Sign(d) * ISqrt((Scale * Scale * d * d) \div (a.den2 * b.den2))

cosine_similarity(a, b) ==
    LET an == [i \in 1..Len(a.val) |-> normalize(a.val[i])]
        bn == [i \in 1..Len(b.val) |-> normalize(b.val[i])]
        rows == [i \in 1..Len(a.val) |-> RowSim(an[i], bn[i])]
    IN [val  |-> TruncDiv(SumSeq(rows), Len(rows)),
        uses |-> {a.tag, b.tag},
        grad |-> a.grad \cup b.grad]

\* -1 * s
Neg(s) == [s EXCEPT !.val = 0 - s.val]
\* s + t
Add(s, t) == [val |-> s.val + t.val, uses |-> s.uses \cup t.uses, grad |-> s.grad \cup t.grad]

\* variant: the second term compares the online network's own projection
shared_step_own_z(b) ==
    LET o1 == online_forward(b.img_1, "img_1")
        t1 == target_forward(b.img_2, "img_2")
        loss_a == Neg(cosine_similarity(o1.h, t1.z))
        o2 == online_forward(b.img_2, "img_2")
        t2 == target_forward(b.img_1, "img_1")
        loss_b == Neg(cosine_similarity(o2.h, o2.z))
        total_loss == Add(loss_a, loss_b)
    IN [loss_a |-> loss_a, loss_b |-> loss_b, total_loss |-> total_loss]

shared_step(b) ==
    LET \* Image 1 to image 2 loss
        o1 == online_forward(b.img_1, "img_1")
        t1 == target_forward(b.img_2, "img_2")
        loss_a == Neg(cosine_similarity(o1.h, t1.z))
        \* Image 2 to image 1 loss
        o2 == online_forward(b.img_2, "img_2")
        t2 == target_forward(b.img_1, "img_1")
        loss_b == Neg(cosine_similarity(o2.h, t2.z))
        \* Final loss
        total_loss == Add(loss_a, loss_b)
    IN [loss_a |-> loss_a, loss_b |-> loss_b, total_loss |-> total_loss]

(***************************************************************************)
(* configure_optimizers: Adam over the online network's parameters, inside *)
(* LARSWrapper, with LinearWarmupCosineAnnealingLR.  The pair is returned  *)
(* as ([optimizer], [scheduler]): a bare scheduler, which the trainer      *)
(* steps at the end of an epoch.                                           *)
(***************************************************************************)
\* variant: the schedule is handed over with a per-batch interval
configure_optimizers_per_step ==
    [configured    |-> TRUE,
     params        |-> online_network,
     base_lr       |-> learning_rate,
     warmup_epochs |-> warmup_epochs,
     max_epochs    |-> max_epochs,
     interval      |-> "step"]

configure_optimizers ==
    [configured    |-> TRUE,
     params        |-> online_network,
     base_lr       |-> learning_rate,
     warmup_epochs |-> warmup_epochs,
     max_epochs    |-> max_epochs,
     interval      |-> "epoch"]

\* cos(pi * k / n) for 0 <= k <= n as a fraction, by Bhaskara's approximation
\* cos(x) = (pi^2 - 4 x^2) / (pi^2 + x^2) on [-pi/2, pi/2], mirrored beyond
CosPi(k, n) ==
    IF 2 * k <= n
    THEN [num |-> n * n - 4 * k * k, den |-> n * n + k * k]
    ELSE [num |-> 0 - (n * n - 4 * (n - k) * (n - k)), den |-> n * n + (n - k) * (n - k)]

\* LinearWarmupCosineAnnealingLR: the learning rate of epoch e
get_lr(opt, e) ==
    IF e <= opt.warmup_epochs
    THEN (opt.base_lr * e) \div opt.warmup_epochs
    ELSE LET c == CosPi(e - opt.warmup_epochs, opt.max_epochs - opt.warmup_epochs)
         IN (opt.base_lr * (c.den + c.num)) \div (2 * c.den)

\* scheduler.step(), when the trainer's event is the schedule's interval
StepScheduler(event) ==
    IF optimizer.interval = event
    THEN /\ last_epoch' = last_epoch + 1
         /\ prev_lr' = lr
         /\ lr' = get_lr(optimizer, last_epoch + 1)
    ELSE UNCHANGED <<last_epoch, lr, prev_lr>>

(***************************************************************************)
(* The hooks of SimSiam.                                                   *)
(***************************************************************************)
LossNames == {"1_2_loss", "2_1_loss", "train_loss"}

training_step(b) ==
    LET r == shared_step(b)
    IN [result   |-> r,
        \* log results
        logged   |-> ("1_2_loss" :> r.loss_a.val) @@ ("2_1_loss" :> r.loss_b.val)
                     @@ ("train_loss" :> r.total_loss.val),
        returned |-> r.total_loss]

\* variant: the first term is returned
validation_step_loss_a(b) ==
    LET r == shared_step(b)
    IN [result   |-> r,
        logged   |-> ("1_2_loss" :> r.loss_a.val) @@ ("2_1_loss" :> r.loss_b.val)
                     @@ ("train_loss" :> r.total_loss.val),
        returned |-> r.loss_a]

\* variant: the total is logged under a name of the validation phase
validation_step_val_loss(b) ==
    LET r == shared_step(b)
    IN [result   |-> r,
        logged   |-> ("1_2_loss" :> r.loss_a.val) @@ ("2_1_loss" :> r.loss_b.val)
                     @@ ("val_loss" :> r.total_loss.val),
        returned |-> r.total_loss]

validation_step(b) ==
    LET r == shared_step(b)
    IN [result   |-> r,
        \* log results
        logged   |-> ("1_2_loss" :> r.loss_a.val) @@ ("2_1_loss" :> r.loss_b.val)
                     @@ ("train_loss" :> r.total_loss.val),
        returned |-> r.total_loss]

\* self.target_network before __init__ has bound it
Unbound == "unbound"

\* variant: self.target_network = self.online_network
_init_target_network_alias(h, self_online, self_target) ==
    [target_network |-> self_online,
     heap |-> [r \in Refs |-> IF r = self_online THEN h[r] ELSE Free]]

\* variant: once bound, the target moves half way to the online network (a
\* moving average, as momentum encoders do) instead of being replaced
_init_target_network_ema(h, self_online, self_target) ==
    LET fresh == CHOOSE r \in Refs : h[r] = Free
        mid(f) == (h[self_target][f] + h[self_online][f]) \div 2
    IN [target_network |-> fresh,
        heap |-> [r \in Refs |->
                    IF r = fresh
                    THEN IF self_target = Unbound THEN h[self_online]
                         ELSE [enc |-> mid("enc"), pred |-> mid("pred")]
                    ELSE IF r = self_online THEN h[r]
                    ELSE Free]]

\* self.target_network = deepcopy(self.online_network), on the heap h with
\* the attributes bound as given: a new object holding the online network's
\* parameter values; the object the attribute named before is released, as
\* nothing else names it
_init_target_network(h, self_online, self_target) ==
    LET fresh == CHOOSE r \in Refs : h[r] = Free
    IN [target_network |-> fresh,
        heap |-> [r \in Refs |->
                    IF r = fresh THEN h[self_online]
                    ELSE IF r = self_online THEN h[r]
                    ELSE Free]]

\* variant: the refresh is made on every other batch
on_train_batch_end_even(outputs, b, bidx, dataloader_idx) ==
    IF bidx % 2 = 0 THEN _init_target_network(heap, online_network, target_network)
    ELSE [target_network |-> target_network, heap |-> heap]

\* variant: the hook leaves the target as it is
on_train_batch_end_skip(outputs, b, bidx, dataloader_idx) ==
    [target_network |-> target_network, heap |-> heap]

on_train_batch_end(outputs, b, bidx, dataloader_idx) ==
    _init_target_network(heap, online_network, target_network)

\* variant: the step's exception is caught and the step tried again
unhandled_retry(at) == at

\* No hook of the module catches anything: an exception raised in a step
\* leaves the hook and ends trainer.fit.  The position the loop is left at.
unhandled(at) == "aborted"

Raise ==
    /\ failed' = TRUE
    /\ pc' = unhandled(pc)
    /\ UNCHANGED <<online_network, target_network, heap, optimizer, last_epoch,
                   lr, prev_lr, current_epoch, batch_idx, batch, result, returned,
                   logged, metric_names, tgt_after_batch, onl_at_refresh, tgt_moved>>

\* self.online_network = SiameseArm(); self._init_target_network()
Init ==
    /\ online_network = "n0"
    /\ \E p \in Params :
         LET new == _init_target_network([r \in Refs |-> IF r = "n0" THEN p ELSE Free],
                                         "n0", Unbound)
         IN /\ target_network = new.target_network
            /\ heap = new.heap
    /\ optimizer = NoOptimizer
    /\ last_epoch = 0
    /\ lr = 0
    /\ prev_lr = 0
    /\ pc = "constructed"
    /\ current_epoch = 0
    /\ batch_idx = 0
    /\ batch = None
    /\ result = None
    /\ returned = None
    /\ logged = None
    /\ metric_names = {}
    /\ failed = FALSE
    /\ tgt_after_batch = None
    /\ onl_at_refresh = None
    /\ tgt_moved = FALSE

(***************************************************************************)
(* The training loop.                                                      *)
(***************************************************************************)
ConfigureOptimizers ==
    /\ pc = "constructed"
    /\ optimizer' = configure_optimizers
    /\ last_epoch' = 0
    /\ lr' = get_lr(optimizer', 0)
    /\ prev_lr' = lr'
    /\ pc' = "ready"
    /\ UNCHANGED <<online_network, target_network, heap, current_epoch, batch_idx,
                   batch, result, returned, logged, metric_names, failed,
                   tgt_after_batch, onl_at_refresh, tgt_moved>>

TrainingStep ==
    /\ pc = "ready"
    /\ batch_idx < MaxBatches
    /\ current_epoch < MaxEpochs
    /\ \E fault \in BOOLEAN :
         IF fault THEN Raise
         ELSE \E b \in Batches :
              LET out == training_step(b)
              IN /\ batch' = b
                 /\ result' = out.result
                 /\ logged' = out.logged
                 /\ metric_names' = metric_names \cup DOMAIN out.logged
                 /\ returned' = out.returned
                 /\ pc' = "stepped"
                 /\ UNCHANGED <<online_network, target_network, heap, optimizer,
                                last_epoch, lr, prev_lr, current_epoch, batch_idx,
                                failed, tgt_after_batch, onl_at_refresh, tgt_moved>>

\* a parameter update: each weight moves by at most one step
Deltas == [enc : {0 - 1, 0, 1}, pred : {0 - 1, 0, 1}]
Moved(p, d) == [enc |-> p.enc + d.enc, pred |-> p.pred + d.pred]

\* loss.backward() and optimizer.step(): the optimizer writes the parameters
\* it was built over, when the loss's graph reaches them
OptimizerStep ==
    /\ pc = "stepped"
    /\ \E fault \in BOOLEAN :
         IF fault THEN Raise
         ELSE \E d \in Deltas :
              /\ Moved(heap[optimizer.params], d) \in Params
              /\ heap' = IF optimizer.params \in returned.grad
                         THEN [heap EXCEPT ![optimizer.params] = Moved(@, d)]
                         ELSE heap
              /\ pc' = "updated"
              /\ UNCHANGED <<online_network, target_network, optimizer, last_epoch,
                             lr, prev_lr, current_epoch, batch_idx, batch, result,
                             returned, logged, metric_names, failed, tgt_after_batch,
                             onl_at_refresh, tgt_moved>>

OnTrainBatchEnd ==
    /\ pc = "updated"
    /\ \E fault \in BOOLEAN :
         IF fault THEN Raise
         ELSE \E outputs \in {returned, None}, dataloader_idx \in {0, 1} :
              LET new == on_train_batch_end(outputs, batch, batch_idx, dataloader_idx)
              IN /\ target_network' = new.target_network
                 /\ heap' = new.heap
                 /\ tgt_after_batch' = new.heap[new.target_network]
                 /\ onl_at_refresh' = OnlineParams
                 /\ tgt_moved' = (tgt_after_batch # None
                                    /\ new.heap[new.target_network] # tgt_after_batch)
                 /\ batch_idx' = batch_idx + 1
                 /\ batch' = None
                 /\ result' = None
                 /\ returned' = None
                 /\ logged' = None
                 /\ pc' = "ready"
                 /\ StepScheduler("step")
                 /\ UNCHANGED <<online_network, optimizer, current_epoch,
                                metric_names, failed>>

ValidationStep ==
    /\ pc = "ready"
    /\ \E fault \in BOOLEAN :
         IF fault THEN Raise
         ELSE \E b \in Batches :
              LET out == validation_step(b)
              IN /\ batch' = b
                 /\ result' = out.result
                 /\ logged' = out.logged
                 /\ metric_names' = metric_names \cup DOMAIN out.logged
                 /\ returned' = out.returned
                 /\ pc' = "validated"
                 /\ UNCHANGED <<online_network, target_network, heap, optimizer,
                                last_epoch, lr, prev_lr, current_epoch, batch_idx,
                                failed, tgt_after_batch, onl_at_refresh, tgt_moved>>

\* the trainer takes the validation output; the module defines no hook here
ValidationBatchEnd ==
    /\ pc = "validated"
    /\ batch' = None
    /\ result' = None
    /\ returned' = None
    /\ logged' = None
    /\ pc' = "ready"
    /\ UNCHANGED <<online_network, target_network, heap, optimizer, last_epoch, lr,
                   prev_lr, current_epoch, batch_idx, metric_names, failed,
                   tgt_after_batch, onl_at_refresh, tgt_moved>>

OnEpochEnd ==
    /\ pc = "ready"
    /\ batch_idx >= 1
    /\ current_epoch < MaxEpochs
    /\ current_epoch' = current_epoch + 1
    /\ batch_idx' = 0
    /\ StepScheduler("epoch")
    /\ UNCHANGED <<online_network, target_network, heap, optimizer, pc, batch,
                   result, returned, logged, metric_names, failed, tgt_after_batch,
                   onl_at_refresh, tgt_moved>>

Finish ==
    /\ pc = "ready"
    /\ batch_idx = 0
    /\ current_epoch >= 1
    /\ pc' = "finished"
    /\ UNCHANGED <<online_network, target_network, heap, optimizer, last_epoch, lr,
                   prev_lr, current_epoch, batch_idx, batch, result, returned,
                   logged, metric_names, failed, tgt_after_batch, onl_at_refresh,
                   tgt_moved>>

Next ==
    \/ ConfigureOptimizers
    \/ TrainingStep
    \/ OptimizerStep
    \/ OnTrainBatchEnd
    \/ ValidationStep
    \/ ValidationBatchEnd
    \/ OnEpochEnd
    \/ Finish

Spec == Init /\ [][Next]_vars

(***************************************************************************)
(* The schedule alone, over the whole of max_epochs: a training batch      *)
(* passes, or an epoch ends, and the trainer steps the schedule when that  *)
(* is its interval.                                                        *)
(***************************************************************************)
SchedTrainBatch ==
    /\ pc = "ready"
    /\ batch_idx < MaxBatches
    /\ current_epoch < max_epochs
    /\ batch_idx' = batch_idx + 1
    /\ StepScheduler("step")
    /\ UNCHANGED <<online_network, target_network, heap, optimizer, pc, current_epoch,
                   batch, result, returned, logged, metric_names, failed,
                   tgt_after_batch, onl_at_refresh, tgt_moved>>

SchedEpochEnd ==
    /\ pc = "ready"
    /\ batch_idx >= 1
    /\ current_epoch < max_epochs
    /\ current_epoch' = current_epoch + 1
    /\ batch_idx' = 0
    /\ StepScheduler("epoch")
    /\ UNCHANGED <<online_network, target_network, heap, optimizer, pc, batch,
                   result, returned, logged, metric_names, failed, tgt_after_batch,
                   onl_at_refresh, tgt_moved>>

SchedNext ==
    \/ ConfigureOptimizers
    \/ SchedTrainBatch
    \/ SchedEpochEnd

SchedSpec == Init /\ [][SchedNext]_vars
(***************************************************************************)
(* Properties.                                                             *)
(***************************************************************************)
RefreshStep == pc = "updated" /\ pc' = "ready"

\* C1: the target's parameters change only in a refresh step, and then to
\* the online network's values; the optimizer is built over the online
\* network's object only, so the step from "stepped" to "updated" leaves the
\* target's parameters as they were; the two attributes never name one object.
C1_TargetOnlyReplaced ==
    [][/\ (TargetParams' # TargetParams =>
             RefreshStep /\ TargetParams' = OnlineParams /\ OnlineParams' = OnlineParams)
       /\ (pc = "stepped" /\ pc' = "updated" => TargetParams' = TargetParams)
       /\ (optimizer'.configured =>
             optimizer'.params = online_network' /\ optimizer'.params # target_network')
       /\ target_network' # online_network']_vars

\* an optimizer step has moved the online parameters after an earlier
\* refresh, and the target still holds what that refresh gave it
C1_Witness ==
    /\ pc = "updated"
    /\ tgt_after_batch # None
    /\ OnlineParams # TargetParams
    /\ TargetParams = tgt_after_batch

\* C2: every step that ends a training batch, whatever the batch index and
\* the outputs, rebinds the target to a new object whose parameters are the
\* online network's parameters of that moment.
C2_RefreshEveryBatch ==
    [][RefreshStep =>
         /\ target_network' \notin {target_network, online_network}
         /\ TargetParams' = OnlineParams
         /\ batch_idx' = batch_idx + 1]_vars

\* two batches of one epoch have ended, the latest refresh copied an updated
\* online network
C2_Witness ==
    /\ pc = "ready"
    /\ batch_idx >= 2
    /\ tgt_moved
    /\ TargetParams = onl_at_refresh

OutputOf(attr, ref, view, head, grad_enabled) ==
    [val  |-> [i \in 1..Len(batch[view]) |-> SiameseArm(heap[ref], batch[view][i])[head]],
     tag  |-> <<attr, head, view>>,
     grad |-> IF grad_enabled THEN {ref} ELSE {}]

InStep == pc \in {"stepped", "validated"}

\* C4: term A is minus the cosine similarity of the online h of img_1 and the
\* target z of img_2, term B the same with the views swapped; the losses'
\* graphs reach the online network's object and not the target's; neither
\* the online z nor the target h enters a term.
C4_SymmetricLoss ==
    InStep =>
      /\ result.loss_a =
           Neg(cosine_similarity(OutputOf("online_network", online_network, "img_1", "h", TRUE),
                                 OutputOf("target_network", target_network, "img_2", "z", FALSE)))
      /\ result.loss_b =
           Neg(cosine_similarity(OutputOf("online_network", online_network, "img_2", "h", TRUE),
                                 OutputOf("target_network", target_network, "img_1", "z", FALSE)))
      /\ result.total_loss.grad = {online_network}
      /\ target_network \notin result.total_loss.grad
      /\ \A t \in result.total_loss.uses :
           /\ t[1] = "online_network" => t[2] = "h"
           /\ t[1] = "target_network" => t[2] = "z"

\* a step on two different views whose two terms differ
C4_Witness ==
    /\ InStep
    /\ batch.img_1 # batch.img_2
    /\ result.loss_a.val # result.loss_b.val
    /\ result.loss_a.val # 0
    /\ result.loss_b.val # 0

\* C5: the total is exactly the sum of the two terms, each term lies in
\* [-1, 1] and the total in [-2, 2].
C5_LossRange ==
    InStep =>
      /\ result.total_loss.val = result.loss_a.val + result.loss_b.val
      /\ result.loss_a.val \in (0 - Scale)..Scale
      /\ result.loss_b.val \in (0 - Scale)..Scale
      /\ result.total_loss.val \in (0 - 2 * Scale)..(2 * Scale)

\* a step of a batch of several images with two different terms strictly
\* inside their range and a total below -1
C5_Witness ==
    /\ InStep
    /\ Len(batch.img_1) >= 2
    /\ result.loss_a.val \in (1 - Scale)..(0 - 1)
    /\ result.loss_b.val \in (1 - Scale)..(0 - 1)
    /\ result.loss_a.val # result.loss_b.val
    /\ result.total_loss.val < 0 - Scale
    /\ result.total_loss.val = result.loss_a.val + result.loss_b.val

\* C6: a training step and a validation step both leave shared_step's three
\* values of their batch as the result and return the total; a validation
\* batch, from its step to its end, leaves the parameters of both networks,
\* the binding of the target, the optimizer and the schedule as they were.
C6_ValidationFrame ==
    [][/\ ((pc = "ready" /\ pc' \in {"stepped", "validated"}) =>
             /\ result' = shared_step(batch')
             /\ returned' = result'.total_loss)
       /\ ((pc' = "validated" \/ pc = "validated") =>
             UNCHANGED <<online_network, target_network, heap, optimizer,
                         last_epoch, lr, prev_lr, tgt_after_batch>>)]_vars

\* a validation step, after training has moved the parameters, whose total
\* is not its first term
C6_Witness ==
    /\ pc = "validated"
    /\ tgt_moved
    /\ returned = result.total_loss
    /\ returned.val # result.loss_a.val

\* C7: a step of either phase records exactly the three names 1_2_loss,
\* 2_1_loss and train_loss, with the two terms and the total as values, and
\* no other name is ever recorded.
C7_MetricNames ==
    /\ metric_names \subseteq LossNames
    /\ InStep =>
         /\ DOMAIN logged = LossNames
         /\ Cardinality(DOMAIN logged) = 3
         /\ logged["1_2_loss"] = result.loss_a.val
         /\ logged["2_1_loss"] = result.loss_b.val
         /\ logged["train_loss"] = result.total_loss.val

\* a validation step has recorded a non-zero total under train_loss
C7_Witness ==
    /\ pc = "validated"
    /\ "train_loss" \in DOMAIN logged
    /\ logged["train_loss"] = result.total_loss.val
    /\ logged["train_loss"] # 0

\* C8: the step in which something fails leaves the loop aborted, and from
\* then on nothing changes: no batch, no optimizer step, no refresh.
C8_FailFast ==
    [][/\ (failed' => pc' = "aborted")
       /\ (failed => UNCHANGED vars)]_vars

\* a refresh has failed after an earlier batch went through
C8_Witness ==
    /\ failed
    /\ pc = "aborted"
    /\ tgt_after_batch # None
    /\ result # None
    /\ OnlineParams # TargetParams

\* C9: with warmup_epochs = 10 and max_epochs = 1000 the schedule has been
\* stepped once for each epoch ended; its rate is 0 at epoch 0, grows at each
\* step up to epoch 10, where it is the configured rate, never grows after,
\* is below the configured rate from epoch 11 on and is 0 at epoch 1000.
C9_Schedule ==
    optimizer.configured =>
      /\ optimizer.warmup_epochs = 10
      /\ optimizer.max_epochs = 1000
      /\ last_epoch = current_epoch
      /\ lr = get_lr(optimizer, current_epoch)
      /\ (last_epoch = 0 => lr = 0)
      /\ (last_epoch \in 1..10 => lr > prev_lr)
      /\ (last_epoch = 10 => lr = learning_rate)
      /\ (last_epoch > 10 => lr <= prev_lr /\ lr < learning_rate)
      /\ (last_epoch = 1000 => lr = 0)

\* the last epoch has ended with the rate back at zero
C9_Witness ==
    /\ optimizer.configured
    /\ current_epoch = 1000
    /\ last_epoch = 1000
    /\ lr = 0

\* C10: wherever a step can start or is running its forward passes' result,
\* the target's parameters equal the online network's; they differ only
\* after an optimizer step whose batch has not ended (or never ends, the run
\* having failed there).
C10_TargetInSync ==
    /\ pc \in {"constructed", "ready", "stepped", "validated", "finished"} =>
         TargetParams = OnlineParams
    /\ TargetParams # OnlineParams => pc \in {"updated", "aborted"}
    /\ (pc = "aborted" /\ TargetParams # OnlineParams) => result # None

\* a training step running on parameters that an earlier batch has moved
C10_Witness ==
    /\ pc = "stepped"
    /\ tgt_moved
    /\ TargetParams = OnlineParams
    /\ TargetParams = tgt_after_batch
====
